---------------------------- MODULE Spec2Model ----------------------------
(***************************************************************************)
(* The asteroids game loop (main.py) with its sprites: the player's ship   *)
(* (player.py), the shots (shot.py), the asteroids (asteroid.py) and the   *)
(* asteroid field that spawns them (asteroidfield.py).                     *)
(*                                                                         *)
(* Units.  Time is counted in milliseconds (pygame's Clock.tick returns    *)
(* whole milliseconds and main.py divides by 1000), so the constants that  *)
(* the source gives in seconds are multiplied by 1000 here.  Lengths are   *)
(* whole pixels, speeds pixels per second, angles whole degrees.  The      *)
(* floating-point vector arithmetic of pygame.Vector2 is fixed-point here: *)
(* sines are taken from a table of 1/1000ths at multiples of ten degrees   *)
(* and every product is rounded to the nearest integer.                    *)
(*                                                                         *)
(* pygame.sprite.Group keeps its sprites in insertion order; iterating a   *)
(* group iterates a copy of its sprite list, Sprite.kill() removes the     *)
(* sprite from every group that holds it, and Sprite.__init__ adds the new *)
(* sprite to each group it is given.                                       *)
(***************************************************************************)
EXTENDS Integers, Sequences, FiniteSets, TLC

VARIABLES
    pc,          \* position of main(): events, update, shoot, collide, draw, quit, gameover
    frame,       \* number of frames started
    dt,          \* main.py: dt, in milliseconds
    keys,        \* the key state pygame.key.get_pressed() reports in this frame
    env,         \* which of the Environments supplies the inputs of this run
    player,      \* pl: position, rotation, shot_timer, radius
    spawn_timer, \* af.spawn_timer, in milliseconds
    ent,         \* every Asteroid and Shot object created so far, by identity
    updatable,   \* the sprite groups of main.py, in insertion order
    drawable,
    asteroids,
    shots,
    iter,        \* the sprites the running for-loop has still to visit
    drawn,       \* what is on the screen: the sprites drawn since the last screen.fill
    since_shot,  \* history: simulated time since the last Shot was created
    lineage      \* history: for each object of ent, the kind of the spawned
                 \* asteroid it descends from and the number of splits in between

vars == <<pc, frame, dt, keys, env, player, spawn_timer, ent, updatable, drawable,
          asteroids, shots, iter, drawn, since_shot, lineage>>

-----------------------------------------------------------------------------
(* Bounds of the exploration *)

MaxFrames == 4

\* The inputs of a run come from one of five environments, so that the
\* keyboard, the clock and the random module are each explored in full
\* without exploring their product:
\*   "pilot"  every key state, short frames, a field that always makes the
\*            same draw;
\*   "field"  every edge, speed, deviation and offset the field may draw,
\*            under an idle player;
\*   "rocks"  every kind and speed of asteroid, arriving from the edge the
\*            ship faces, under a player who only fires;
\*   "volley" a player who advances while firing, with the frame durations
\*            that bring two shots onto one asteroid;
\*   "ram"    a player who advances into the asteroids, firing or not, or
\*            backs off the screen, long frames.
Environments == {"pilot", "field", "rocks", "volley", "ram"}

\* frame durations the clock may report after the first frame, in ms
DtValues(e) ==
    CASE e = "pilot"  -> {100, 300}
      [] e = "field"  -> {100, 800}
      [] e = "rocks"  -> {100, 800}
      [] e = "volley" -> {100, 300, 560}
      [] e = "ram"    -> {900}

\* the key states pygame.key.get_pressed() may report
KeyInputs(e) ==
    CASE e = "pilot"  -> { {}, {"SPACE"}, {"UP"}, {"UP", "SPACE"}, {"LEFT"}, {"RIGHT"},
                           {"LEFT", "RIGHT"}, {"DOWN"}, {"UP", "DOWN"} }
      [] e = "field"  -> { {} }
      [] e = "rocks"  -> { {}, {"SPACE"} }
      [] e = "volley" -> { {"SPACE"}, {"UP", "SPACE"} }
      [] e = "ram"    -> { {}, {"UP"}, {"UP", "SPACE"}, {"DOWN"} }

\* the draws of the random module in AsteroidField.update
Edges(e)      == IF e = "field" THEN 1..4 ELSE {4}
\* random.randint(40, 100)
Speeds(e)     == IF e \in {"field", "rocks"} THEN {40, 100} ELSE {100}
\* random.randint(-30, 30)
Deviations(e) == IF e = "field" THEN {-30, 0, 30} ELSE {0}
\* random.uniform(0, 1), in hundredths
Offsets(e)    == IF e = "field" THEN {0, 50, 100} ELSE {50}
\* random.randint(1, ASTEROID_KINDS)
Kinds(e)      == IF e = "rocks" THEN 1..3 ELSE {3}
\* random.uniform(20, 50) in Asteroid.split
Thetas        == {20, 30, 50}

-----------------------------------------------------------------------------
(* constants.py *)

SCREEN_WIDTH == 1280
SCREEN_HEIGHT == 720
ASTEROID_MIN_RADIUS == 20
ASTEROID_KINDS == 3
ASTEROID_SPAWN_RATE == 800
ASTEROID_MAX_RADIUS == ASTEROID_MIN_RADIUS * ASTEROID_KINDS
PLAYER_RADIUS == 20
PLAYER_TURN_SPEED == 300
PLAYER_SPEED == 200
SHOT_RADIUS == 5
PLAYER_SHOT_SPEED == 500
PLAYER_SHOT_COOLDOWN == 300

\* the identities of the two sprites main() creates itself
PL == 0
AF == -1

-----------------------------------------------------------------------------
(* pygame.Vector2 in fixed point *)

\* n / d rounded to the nearest integer
Round(n, d) == (2 * n + d) \div (2 * d)

SinTable == <<0, 174, 342, 500, 643, 766, 866, 940, 985, 1000>>

\* 1000 * sin(a) for a multiple of ten degrees
Sin1000(a) ==
    LET b == a % 360 IN
    IF b <= 90 THEN SinTable[(b \div 10) + 1]
    ELSE IF b <= 180 THEN SinTable[((180 - b) \div 10) + 1]
    ELSE IF b <= 270 THEN -SinTable[((b - 180) \div 10) + 1]
    ELSE -SinTable[((360 - b) \div 10) + 1]

Cos1000(a) == Sin1000(a + 90)

\* Vector2.rotate(angle): counterclockwise by angle degrees
Rotate(v, a) ==
    <<Round(v[1] * Cos1000(a) - v[2] * Sin1000(a), 1000),
      Round(v[1] * Sin1000(a) + v[2] * Cos1000(a), 1000)>>

\* v * s for a speed s, v in 1/1000ths
Scale(v, s) == <<Round(v[1] * s, 1000), Round(v[2] * s, 1000)>>

\* position + velocity * t, t in milliseconds
Advance(p, v, t) == <<p[1] + Round(v[1] * t, 1000), p[2] + Round(v[2] * t, 1000)>>

\* a forward vector that starts from (1, 0)
Forward_FromRight(rotation) == Rotate(<<1000, 0>>, rotation)

\* pygame.Vector2(0, 1).rotate(rotation), in 1/1000ths
Forward(rotation) == Rotate(<<0, 1000>>, rotation)

-----------------------------------------------------------------------------
(* circleshape.py *)

\* an overlap test that counts touching circles as colliding
does_collide_Touching(a, b) ==
    LET dx == a.position[1] - b.position[1]
        dy == a.position[2] - b.position[2]
        rr == a.radius + b.radius
    IN dx * dx + dy * dy <= rr * rr

\* an overlap test that takes its own radius twice
does_collide_OwnRadius(a, b) ==
    LET dx == a.position[1] - b.position[1]
        dy == a.position[2] - b.position[2]
        rr == a.radius + a.radius
    IN dx * dx + dy * dy < rr * rr

\* CircleShape.does_collide: distance < self.radius + other.radius
does_collide(a, b) ==
    LET dx == a.position[1] - b.position[1]
        dy == a.position[2] - b.position[2]
        rr == a.radius + b.radius
    IN dx * dx + dy * dy < rr * rr

\* the groups and the objects, as one value the sprite operations transform
World == [ent |-> ent, updatable |-> updatable, drawable |-> drawable,
          asteroids |-> asteroids, shots |-> shots]

Without(s, id) == SelectSeq(s, LAMBDA x : x # id)

\* a removal that leaves the sprite in the drawable group
kill_StillDrawn(w, id) ==
    [w EXCEPT !.updatable = Without(@, id),
              !.asteroids = Without(@, id), !.shots = Without(@, id)]

\* Sprite.kill(): leave every group
kill(w, id) ==
    [w EXCEPT !.updatable = Without(@, id), !.drawable = Without(@, id),
              !.asteroids = Without(@, id), !.shots = Without(@, id)]

\* Asteroid(x, y, radius) followed by the assignment of its velocity:
\* CircleShape.__init__ adds the object to Asteroid.containers
NewAsteroid(w, pos, vel, rad) ==
    LET id == Len(w.ent) + 1 IN
    [w EXCEPT !.ent = Append(@, [type |-> "asteroid", position |-> pos,
                                 velocity |-> vel, radius |-> rad]),
              !.updatable = Append(@, id), !.drawable = Append(@, id),
              !.asteroids = Append(@, id)]

\* a shot whose containers lack the shots group
NewShot_Unlisted(w, pos, vel, rad) ==
    LET id == Len(w.ent) + 1 IN
    [w EXCEPT !.ent = Append(@, [type |-> "shot", position |-> pos,
                                 velocity |-> vel, radius |-> rad]),
              !.updatable = Append(@, id), !.drawable = Append(@, id)]

\* Shot(x, y, radius) followed by the assignment of its velocity
NewShot(w, pos, vel, rad) ==
    LET id == Len(w.ent) + 1 IN
    [w EXCEPT !.ent = Append(@, [type |-> "shot", position |-> pos,
                                 velocity |-> vel, radius |-> rad]),
              !.updatable = Append(@, id), !.drawable = Append(@, id),
              !.shots = Append(@, id)]

\* history: the lineage of the objects created since lin was recorded
Grow(lin, n, rec) == lin \o [i \in 1..(n - Len(lin)) |-> rec]

SetWorld(w) ==
    /\ ent' = w.ent
    /\ updatable' = w.updatable
    /\ drawable' = w.drawable
    /\ asteroids' = w.asteroids
    /\ shots' = w.shots

-----------------------------------------------------------------------------
(* asteroid.py *)

\* split with both children turned the same way
split_SameTurn(w, id, theta) ==
    LET self == w.ent[id] IN
    IF self.radius < ASTEROID_MIN_RADIUS
    THEN kill(w, id)
    ELSE LET new_radius == self.radius - ASTEROID_MIN_RADIUS
             w1 == NewAsteroid(kill(w, id), self.position,
                               Rotate(self.velocity, theta), new_radius)
         IN NewAsteroid(w1, self.position, Rotate(self.velocity, theta), new_radius)

\* a split whose children keep the radius of their parent
split_SameSize(w, id, theta) ==
    LET self == w.ent[id] IN
    IF self.radius < ASTEROID_MIN_RADIUS
    THEN kill(w, id)
    ELSE LET new_radius == self.radius
             w1 == NewAsteroid(kill(w, id), self.position,
                               Rotate(self.velocity, theta), new_radius)
         IN NewAsteroid(w1, self.position, Rotate(self.velocity, -theta), new_radius)

\* Asteroid.split of the object id, theta the angle random.uniform draws
split(w, id, theta) ==
    LET self == w.ent[id] IN
    IF self.radius < ASTEROID_MIN_RADIUS
    THEN kill(w, id)
    ELSE LET new_radius == self.radius - ASTEROID_MIN_RADIUS
             w1 == NewAsteroid(kill(w, id), self.position,
                               Rotate(self.velocity, theta), new_radius)
         IN NewAsteroid(w1, self.position, Rotate(self.velocity, -theta), new_radius)

-----------------------------------------------------------------------------
(* main.py: construction *)

\* a construction that makes the player before Player.containers is set
Init_PlayerBeforeContainers ==
    /\ pc = "events"
    /\ frame = 0
    /\ dt = 0
    /\ keys = {}
    /\ env \in Environments
    /\ player = [position |-> <<SCREEN_WIDTH \div 2, SCREEN_HEIGHT \div 2>>,
                 rotation |-> 0, shot_timer |-> 0, radius |-> PLAYER_RADIUS]
    /\ spawn_timer = 0
    /\ ent = <<>>
    /\ updatable = <<AF>>
    /\ drawable = <<>>
    /\ asteroids = <<>>
    /\ shots = <<>>
    /\ iter = <<>>
    /\ drawn = <<>>
    /\ since_shot = 0
    /\ lineage = <<>>

Init ==
    /\ pc = "events"
    /\ frame = 0
    /\ dt = 0
    /\ keys = {}
    /\ env \in Environments
    /\ player = [position |-> <<SCREEN_WIDTH \div 2, SCREEN_HEIGHT \div 2>>,
                 rotation |-> 0, shot_timer |-> 0, radius |-> PLAYER_RADIUS]
    /\ spawn_timer = 0
    /\ ent = <<>>
    /\ updatable = <<PL, AF>>
    /\ drawable = <<PL>>
    /\ asteroids = <<>>
    /\ shots = <<>>
    /\ iter = <<>>
    /\ drawn = <<PL>>
    /\ since_shot = 0
    /\ lineage = <<>>

-----------------------------------------------------------------------------
(* main.py: the loop *)

\* screen.fill; the update loop starts on a copy of updatable
BeginFrame ==
    /\ pc' = "update"
    /\ frame' = frame + 1
    /\ iter' = updatable
    /\ drawn' = <<>>
    /\ since_shot' = since_shot + dt

\* an event loop that lets the QUIT event pass
Quit_Ignored == BeginFrame

\* if event.type == pygame.QUIT: return
Quit ==
    /\ pc' = "quit"
    /\ UNCHANGED <<frame, iter, drawn, since_shot>>

\* the event loop, which also brings the key state up to date; keys records
\* what the frame's inputs were: the keys held, and QUIT when the event
\* queue held a QUIT event
PollEvents ==
    /\ pc = "events"
    /\ frame < MaxFrames
    /\ \E quit \in BOOLEAN, k \in KeyInputs(env) :
         IF quit
         THEN keys' = k \cup {"QUIT"} /\ Quit
         ELSE keys' = k /\ BeginFrame
    /\ UNCHANGED <<dt, env, player, spawn_timer, ent, updatable, drawable,
                   asteroids, shots, lineage>>

\* an update loop that runs over the updatable group itself, not over a
\* copy: the sprites an update creates join the ones still to update
UpdateDone_LiveGroup(asts) ==
    LET new == SelectSeq(updatable', LAMBDA x : \A i \in DOMAIN updatable : updatable[i] # x)
        todo == Tail(iter) \o new
    IN IF todo # <<>>
       THEN pc' = "update" /\ iter' = todo
       ELSE IF asts # <<>>
       THEN pc' = "collide" /\ iter' = asts
       ELSE pc' = "draw" /\ iter' = <<>>

\* the update loop moves on: to the next sprite, or to the collision loop
\* over a copy of asteroids, or past it when there is no asteroid
UpdateDone(asts) ==
    IF Tail(iter) # <<>>
    THEN pc' = "update" /\ iter' = Tail(iter)
    ELSE IF asts # <<>>
    THEN pc' = "collide" /\ iter' = asts
    ELSE pc' = "draw" /\ iter' = <<>>

\* a rotation kept within [0, 360)
rotate_Wrapped(p, t) ==
    [p EXCEPT !.rotation = (@ + (PLAYER_TURN_SPEED * t) \div 1000) % 360]

\* Player.rotate(t)
rotate(p, t) == [p EXCEPT !.rotation = @ + (PLAYER_TURN_SPEED * t) \div 1000]

\* Player.move(t)
move(p, t) ==
    [p EXCEPT !.position = Advance(@, Scale(Forward(p.rotation), PLAYER_SPEED), t)]

\* key handling under which the cooldown runs down with time, fire key or not
Steer_Cooling(p, k, t) ==
    LET p0 == IF p.shot_timer > 0 THEN [p EXCEPT !.shot_timer = @ - t] ELSE p
        p1 == IF "LEFT" \in k THEN rotate(p0, -t) ELSE p0
        p2 == IF "RIGHT" \in k THEN rotate(p1, t) ELSE p1
        p3 == IF "UP" \in k THEN move(p2, t) ELSE p2
    IN IF "DOWN" \in k THEN move(p3, -t) ELSE p3

\* the key handling of Player.update up to the call of shoot
Steer(p, k, t) ==
    LET p1 == IF "LEFT" \in k THEN rotate(p, -t) ELSE p
        p2 == IF "RIGHT" \in k THEN rotate(p1, t) ELSE p1
        p3 == IF "UP" \in k THEN move(p2, t) ELSE p2
    IN IF "DOWN" \in k THEN move(p3, -t) ELSE p3

\* Player.update up to the call of shoot
PlayerUpdate ==
    /\ pc = "update"
    /\ Head(iter) = PL
    /\ player' = Steer(player, keys, dt)
    /\ UNCHANGED <<frame, dt, keys, env, since_shot, lineage, spawn_timer, ent,
                   updatable, drawable, asteroids, shots, drawn>>
    /\ IF "SPACE" \in keys
       THEN pc' = "shoot" /\ iter' = iter
       ELSE UpdateDone(asteroids)

\* a cooldown that does not run down
RunDown_Stuck(p, t) == p

\* a cooldown that stops at 0
RunDown_Clamped(p, t) ==
    [p EXCEPT !.shot_timer = IF @ - t < 0 THEN 0 ELSE @ - t]

\* Player.shoot: self.shot_timer -= dt
RunDown(p, t) == [p EXCEPT !.shot_timer = @ - t]

\* a shot that leaves the timer as it is
Reload_Forgotten(p) == p

\* Player.shoot: self.shot_timer = PLAYER_SHOT_COOLDOWN
Reload(p) == [p EXCEPT !.shot_timer = PLAYER_SHOT_COOLDOWN]

\* Player.shoot(dt)
PlayerShoot ==
    /\ pc = "shoot"
    /\ IF player.shot_timer > 0
       THEN /\ player' = RunDown(player, dt)
            /\ UNCHANGED <<ent, updatable, drawable, asteroids, shots, since_shot,
                           lineage>>
       ELSE /\ SetWorld(NewShot(World, player.position,
                                Scale(Forward(player.rotation), PLAYER_SHOT_SPEED),
                                SHOT_RADIUS))
            /\ player' = Reload(player)
            /\ since_shot' = 0
            /\ lineage' = Grow(lineage, Len(ent'), [kind |-> 0, depth |-> 0])
    /\ UpdateDone(asteroids)
    /\ UNCHANGED <<frame, dt, keys, env, spawn_timer, drawn>>

\* edges whose second direction vector points the way of the first
EdgeDir_SameWay(e) ==
    CASE e = 1 -> <<1, 0>>
      [] e = 2 -> <<1, 0>>
      [] e = 3 -> <<0, 1>>
      [] e = 4 -> <<0, -1>>

\* AsteroidField.edges: the direction and the position at offset o (hundredths)
EdgeDir(e) ==
    CASE e = 1 -> <<1, 0>>
      [] e = 2 -> <<-1, 0>>
      [] e = 3 -> <<0, 1>>
      [] e = 4 -> <<0, -1>>

EdgePos(e, o) ==
    CASE e = 1 -> <<-ASTEROID_MAX_RADIUS, (o * SCREEN_HEIGHT) \div 100>>
      [] e = 2 -> <<SCREEN_WIDTH + ASTEROID_MAX_RADIUS, (o * SCREEN_HEIGHT) \div 100>>
      [] e = 3 -> <<(o * SCREEN_WIDTH) \div 100, -ASTEROID_MAX_RADIUS>>
      [] e = 4 -> <<(o * SCREEN_WIDTH) \div 100, SCREEN_HEIGHT + ASTEROID_MAX_RADIUS>>

\* a spawn that makes the asteroid one step of radius too small
spawn_Undersized(w, radius, position, velocity) ==
    NewAsteroid(w, position, velocity, radius - ASTEROID_MIN_RADIUS)

\* AsteroidField.spawn
spawn(w, radius, position, velocity) == NewAsteroid(w, position, velocity, radius)

\* a field that spawns as soon as the rate is reached
SpawnDue_AtRate(t) == t >= ASTEROID_SPAWN_RATE

\* AsteroidField.update: self.spawn_timer > ASTEROID_SPAWN_RATE
SpawnDue(t) == t > ASTEROID_SPAWN_RATE

\* AsteroidField.update(dt)
FieldUpdate ==
    /\ pc = "update"
    /\ Head(iter) = AF
    /\ IF SpawnDue(spawn_timer + dt)
       THEN /\ spawn_timer' = 0
            /\ \E e \in Edges(env), speed \in Speeds(env), dev \in Deviations(env),
                  o \in Offsets(env), kind \in Kinds(env) :
                 LET velocity == Rotate(<<EdgeDir(e)[1] * speed, EdgeDir(e)[2] * speed>>, dev)
                     w == spawn(World, ASTEROID_MIN_RADIUS * kind, EdgePos(e, o), velocity)
                 IN /\ SetWorld(w)
                    /\ UpdateDone(w.asteroids)
                    /\ lineage' = Grow(lineage, Len(ent'), [kind |-> kind, depth |-> 0])
       ELSE /\ spawn_timer' = spawn_timer + dt
            /\ UNCHANGED <<ent, updatable, drawable, asteroids, shots, lineage>>
            /\ UpdateDone(asteroids)
    /\ UNCHANGED <<frame, dt, keys, env, player, drawn, since_shot>>

\* an asteroid update that also slows the asteroid down
AsteroidUpdate_Slowing ==
    /\ pc = "update"
    /\ Head(iter) > 0
    /\ ent[Head(iter)].type = "asteroid"
    /\ ent' = [ent EXCEPT ![Head(iter)].position =
                              Advance(@, ent[Head(iter)].velocity, dt),
                          ![Head(iter)].velocity = <<@[1] \div 2, @[2] \div 2>>]
    /\ UpdateDone(asteroids)
    /\ UNCHANGED <<frame, dt, keys, env, player, spawn_timer, updatable, drawable,
                   asteroids, shots, drawn, since_shot, lineage>>

\* Asteroid.update(dt)
AsteroidUpdate ==
    /\ pc = "update"
    /\ Head(iter) > 0
    /\ ent[Head(iter)].type = "asteroid"
    /\ ent' = [ent EXCEPT ![Head(iter)].position =
                   Advance(@, ent[Head(iter)].velocity, dt)]
    /\ UNCHANGED <<frame, dt, keys, env, player, spawn_timer, updatable, drawable,
                   asteroids, shots, drawn, since_shot, lineage>>
    /\ UpdateDone(asteroids)

\* the circle lies wholly outside the screen
OffScreen(c) ==
    \/ c.position[1] + c.radius < 0
    \/ c.position[1] - c.radius > SCREEN_WIDTH
    \/ c.position[2] + c.radius < 0
    \/ c.position[2] - c.radius > SCREEN_HEIGHT

\* a shot that kills itself once it has left the screen
Shot_update_Expiring(w, id, t) ==
    LET w1 == [w EXCEPT !.ent[id].position = Advance(@, w.ent[id].velocity, t)]
    IN IF OffScreen(w1.ent[id]) THEN kill(w1, id) ELSE w1

\* Shot.update(dt): self.position += self.velocity * dt
Shot_update(w, id, t) ==
    [w EXCEPT !.ent[id].position = Advance(@, w.ent[id].velocity, t)]

\* the update loop's call of Shot.update(dt)
ShotUpdate ==
    /\ pc = "update"
    /\ Head(iter) > 0
    /\ ent[Head(iter)].type = "shot"
    /\ SetWorld(Shot_update(World, Head(iter), dt))
    /\ UpdateDone(asteroids)
    /\ UNCHANGED <<frame, dt, keys, env, player, spawn_timer, drawn, since_shot,
                   lineage>>

\* an inner loop that splits the asteroid and lets the shot live
RECURSIVE HitShots_ShotSurvives(_, _, _, _)
HitShots_ShotSurvives(w, a, ss, th) ==
    IF ss = <<>> THEN w
    ELSE IF does_collide(w.ent[a], w.ent[Head(ss)])
    THEN HitShots_ShotSurvives(split(w, a, Head(th)), a, Tail(ss), Tail(th))
    ELSE HitShots_ShotSurvives(w, a, Tail(ss), th)

\* the inner loop of the collision pass for the asteroid a: ss is what is
\* left of the copy of shots it iterates, th the angles the calls of split
\* are going to draw
RECURSIVE HitShots(_, _, _, _)
HitShots(w, a, ss, th) ==
    IF ss = <<>> THEN w
    ELSE IF does_collide(w.ent[a], w.ent[Head(ss)])
    THEN HitShots(kill(split(w, a, Head(th)), Head(ss)), a, Tail(ss), Tail(th))
    ELSE HitShots(w, a, Tail(ss), th)

\* the shots of ss the asteroid a overlaps
Hits(a, ss) == SelectSeq(ss, LAMBDA s : does_collide(ent[a], ent[s]))

\* a collision loop that does not look at the player
ShipStruck_Unchecked(a) == FALSE

\* main: sprite.does_collide(pl)
ShipStruck(a) == does_collide(ent[a], player)

\* a collision loop that runs over the asteroids group itself, not over a
\* copy: the asteroids a round creates join the ones still to visit
CollideAsteroid_LiveGroup ==
    /\ pc = "collide"
    /\ LET a == Head(iter) IN
       IF ShipStruck(a)
       THEN /\ pc' = "gameover"
            /\ UNCHANGED <<ent, updatable, drawable, asteroids, shots, iter, lineage>>
       ELSE /\ \E th \in [1..Len(Hits(a, shots)) -> Thetas] :
                 SetWorld(HitShots(World, a, shots, th))
            /\ lineage' = Grow(lineage, Len(ent'),
                               [kind |-> lineage[a].kind, depth |-> lineage[a].depth + 1])
            /\ iter' = Tail(iter) \o [i \in 1..(Len(ent') - Len(ent)) |-> Len(ent) + i]
            /\ pc' = IF iter' = <<>> THEN "draw" ELSE "collide"
    /\ UNCHANGED <<frame, dt, keys, env, player, spawn_timer, drawn, since_shot>>

\* a round of the collision loop that goes through the shots before it
\* looks at the player
CollideAsteroid_ShotsFirst ==
    /\ pc = "collide"
    /\ LET a == Head(iter) IN
       /\ \E th \in [1..Len(Hits(a, shots)) -> Thetas] :
            SetWorld(HitShots(World, a, shots, th))
       /\ lineage' = Grow(lineage, Len(ent'),
                          [kind |-> lineage[a].kind, depth |-> lineage[a].depth + 1])
       /\ IF ShipStruck(a)
          THEN pc' = "gameover" /\ iter' = iter
          ELSE /\ iter' = Tail(iter)
               /\ pc' = IF Tail(iter) = <<>> THEN "draw" ELSE "collide"
    /\ UNCHANGED <<frame, dt, keys, env, player, spawn_timer, drawn, since_shot>>

\* one round of the collision loop: the asteroid against the player, then
\* against every shot
CollideAsteroid ==
    /\ pc = "collide"
    /\ LET a == Head(iter) IN
       IF ShipStruck(a)
       THEN /\ pc' = "gameover"
            /\ UNCHANGED <<ent, updatable, drawable, asteroids, shots, iter, lineage>>
       ELSE /\ \E th \in [1..Len(Hits(a, shots)) -> Thetas] :
                 SetWorld(HitShots(World, a, shots, th))
            /\ lineage' = Grow(lineage, Len(ent'),
                               [kind |-> lineage[a].kind, depth |-> lineage[a].depth + 1])
            /\ iter' = Tail(iter)
            /\ pc' = IF Tail(iter) = <<>> THEN "draw" ELSE "collide"
    /\ UNCHANGED <<frame, dt, keys, env, player, spawn_timer, drawn, since_shot>>

\* the draw loop, display.flip and the clock's tick
DrawAll ==
    /\ pc = "draw"
    /\ drawn' = drawable
    /\ \E d \in DtValues(env) : dt' = d
    /\ pc' = "events"
    /\ UNCHANGED <<frame, keys, env, player, spawn_timer, ent, updatable, drawable,
                   asteroids, shots, iter, since_shot, lineage>>

Next ==
    \/ PollEvents
    \/ PlayerUpdate
    \/ PlayerShoot
    \/ FieldUpdate
    \/ AsteroidUpdate
    \/ ShotUpdate
    \/ CollideAsteroid
    \/ DrawAll

Spec == Init /\ [][Next]_vars

-----------------------------------------------------------------------------
(* circleshape.py: does_collide on two circles of any size *)

\* the coordinates and radii of the circles tried; they hold the centre
\* distances 10 and 15, along an axis and off it (6-8-10 and 9-12-15)
Coordinates == {0, 6, 8, 9, 10, 12, 15}
Radii == {0, 5, 10, 20}

\* CircleShape(x, y, radius)
Circle(x, y, r) ==
    [type |-> "circle", position |-> <<x, y>>, velocity |-> <<0, 0>>, radius |-> r]

\* two circles, and the order in which the test is called on them
InitCircles ==
    /\ pc = "test"
    /\ \E x, y \in Coordinates, r1, r2 \in Radii :
         ent = <<Circle(0, 0, r1), Circle(x, y, r2)>>
    /\ iter \in {<<1, 2>>, <<2, 1>>}
    /\ frame = 0
    /\ dt = 0
    /\ keys = {}
    /\ env = "circles"
    /\ player = [position |-> <<SCREEN_WIDTH \div 2, SCREEN_HEIGHT \div 2>>,
                 rotation |-> 0, shot_timer |-> 0, radius |-> PLAYER_RADIUS]
    /\ spawn_timer = 0
    /\ updatable = <<>>
    /\ drawable = <<>>
    /\ asteroids = <<>>
    /\ shots = <<>>
    /\ drawn = <<>>
    /\ since_shot = 0
    /\ lineage = <<>>

\* if self.does_collide(other): the branch taken
TestCollide ==
    /\ pc = "test"
    /\ pc' = IF does_collide(ent[iter[1]], ent[iter[2]]) THEN "overlap" ELSE "apart"
    /\ UNCHANGED <<frame, dt, keys, env, player, spawn_timer, ent, updatable,
                   drawable, asteroids, shots, iter, drawn, since_shot, lineage>>

NextCircles == TestCollide

SpecCircles == InitCircles /\ [][NextCircles]_vars

-----------------------------------------------------------------------------

(* Properties *)

\* the members of a group
Members(g) == {g[i] : i \in DOMAIN g}

\* the object is in none of the groups
InNoGroup(id) ==
    id \notin (Members(updatable) \cup Members(drawable)
               \cup Members(asteroids) \cup Members(shots))

InNoGroupNext(id) ==
    id \notin (Members(updatable') \cup Members(drawable')
               \cup Members(asteroids') \cup Members(shots'))

\* the asteroid is in every group of Asteroid.containers
InAsteroidGroupsNext(id) ==
    id \in (Members(updatable') \cap Members(drawable') \cap Members(asteroids'))

\* this round of the collision loop calls split() on the asteroid it visits
SplitCalled ==
    /\ pc = "collide"
    /\ ~does_collide(ent[Head(iter)], player)
    /\ Hits(Head(iter), shots) # <<>>

\* the angles of [20, 50] the sine table knows
ThetaRange == {t \in 20..50 : t % 10 = 0}

\* the objects created so far that are shots
ShotsCreated == {i \in DOMAIN ent : ent[i].type = "shot"}

\* C1: split() of an asteroid whose radius is less than or equal to
\* ASTEROID_MIN_RADIUS, a radius exactly equal to it included, removes the
\* asteroid from every group and creates no new asteroid.
C1_SmallAsteroidLeavesNoChildren ==
    [][(SplitCalled /\ ent[Head(iter)].radius <= ASTEROID_MIN_RADIUS)
         => (InNoGroupNext(Head(iter)) /\ Len(ent') = Len(ent))]_vars

\* C2: each split() of an asteroid whose radius is greater than
\* ASTEROID_MIN_RADIUS removes it from every group and adds exactly two new
\* asteroids, both at the parent's position with the parent's radius minus
\* ASTEROID_MIN_RADIUS, one with the parent's velocity rotated by +theta and
\* the other by -theta for a single theta of [20, 50].
C2_SplitMakesTwoDeflectedChildren ==
    [][(SplitCalled /\ ent[Head(iter)].radius > ASTEROID_MIN_RADIUS) =>
         LET a == Head(iter)
             n == Len(Hits(a, shots))
         IN /\ InNoGroupNext(a)
            /\ Len(ent') = Len(ent) + 2 * n
            /\ \A j \in 1..n :
                 LET c1 == Len(ent) + 2 * j - 1
                     c2 == Len(ent) + 2 * j
                 IN /\ InAsteroidGroupsNext(c1)
                    /\ InAsteroidGroupsNext(c2)
                    /\ \E theta \in ThetaRange :
                         /\ ent'[c1] = [type |-> "asteroid",
                                        position |-> ent[a].position,
                                        velocity |-> Rotate(ent[a].velocity, theta),
                                        radius |-> ent[a].radius - ASTEROID_MIN_RADIUS]
                         /\ ent'[c2] = [type |-> "asteroid",
                                        position |-> ent[a].position,
                                        velocity |-> Rotate(ent[a].velocity, -theta),
                                        radius |-> ent[a].radius - ASTEROID_MIN_RADIUS]]_vars

\* C2's case: an asteroid larger than the minimum has been split in this
\* collision pass and its two children are live where it was
C2_Witness ==
    /\ pc \in {"collide", "draw"}
    /\ \E a \in DOMAIN ent :
         /\ ent[a].type = "asteroid"
         /\ ent[a].radius > ASTEROID_MIN_RADIUS
         /\ InNoGroup(a)
         /\ \E c \in Members(asteroids) :
              /\ c + 1 \in Members(asteroids)
              /\ ent[c].position = ent[a].position
              /\ ent[c + 1].position = ent[a].position
              /\ ent[c].radius = ent[a].radius - ASTEROID_MIN_RADIUS
              /\ ent[c].velocity # ent[c + 1].velocity

\* C3: every live asteroid has radius ASTEROID_MIN_RADIUS * k for a kind k
\* of 1..ASTEROID_KINDS; no live asteroid has radius 0 or less.
C3_LiveRadiusIsAKind ==
    \A a \in Members(asteroids) :
        \E k \in 1..ASTEROID_KINDS : ent[a].radius = ASTEROID_MIN_RADIUS * k

\* C4: the descendants of a spawned asteroid of kind k form a tree of depth
\* k - 1: no asteroid is more than k - 1 splits away from its spawned
\* ancestor, so a hit on a radius-20 asteroid leaves no children.
C4_SplitTreeDepth ==
    \A i \in DOMAIN ent :
        ent[i].type = "asteroid" => lineage[i].depth <= lineage[i].kind - 1

\* C5: within one collision pass split() is applied at most once to an
\* asteroid, so the round of the collision loop that visits an asteroid adds
\* at most two asteroids and removes at most one shot.
C5_OneSplitPerAsteroidPerPass ==
    [][pc = "collide" =>
         (Len(ent') <= Len(ent) + 2 /\ Len(shots') >= Len(shots) - 1)]_vars

\* C6: when an asteroid overlaps the ship in the collision pass the game
\* enters the terminal state: nothing else changes in that step, no step
\* follows it, and nothing has been drawn in that frame; a collision pass that
\* runs to its end leaves no live asteroid overlapping the ship.
C6_ShipHitIsTerminal ==
    /\ [][(pc = "collide" /\ does_collide(ent[Head(iter)], player))
            => (pc' = "gameover" /\
                UNCHANGED <<frame, dt, player, spawn_timer, ent, updatable,
                            drawable, asteroids, shots, drawn>>)]_vars
    /\ [][pc # "gameover"]_vars
    /\ [](pc = "gameover" => drawn = <<>>)
    /\ [](pc = "draw" =>
            \A a \in Members(asteroids) : ~does_collide(ent[a], player))

\* C6's case: an asteroid has struck the ship
C6_Witness ==
    /\ pc = "gameover"
    /\ \E a \in Members(asteroids) : does_collide(ent[a], player)

\* C7: shoot() called while the shot timer is greater than 0 creates no
\* shot, leaves the ship's position and rotation alone and decreases the
\* timer by exactly dt.
C7_ShootDuringCooldown ==
    [][(pc = "shoot" /\ player.shot_timer > 0) =>
         /\ ent' = ent
         /\ shots' = shots
         /\ updatable' = updatable
         /\ drawable' = drawable
         /\ player'.position = player.position
         /\ player'.rotation = player.rotation
         /\ player'.shot_timer = player.shot_timer - dt]_vars

\* C7's case: shoot() has returned from a call made during the cooldown, with
\* part of the cooldown used up
C7_Witness ==
    /\ pc \in {"update", "collide", "draw"}
    /\ "SPACE" \in keys
    /\ dt > 0
    /\ player.shot_timer < PLAYER_SHOT_COOLDOWN
    /\ ShotsCreated # {}
    /\ since_shot > 0

\* C8: shoot() called while the shot timer is 0 or less creates exactly one
\* shot, at the ship's position, with radius SHOT_RADIUS and the ship's
\* forward vector times PLAYER_SHOT_SPEED as its velocity ((0, 500) at
\* rotation 0), and sets the timer to PLAYER_SHOT_COOLDOWN.
C8_ShootCreatesOneShot ==
    [][(pc = "shoot" /\ player.shot_timer <= 0) =>
         LET s == Len(ent) + 1 IN
         /\ Len(ent') = s
         /\ ent'[s] = [type |-> "shot", position |-> player.position,
                       velocity |-> Scale(Forward(player.rotation), PLAYER_SHOT_SPEED),
                       radius |-> SHOT_RADIUS]
         /\ (player.rotation = 0 => ent'[s].velocity = <<0, 500>>)
         /\ (player.rotation = 90 => ent'[s].velocity = <<-500, 0>>)
         /\ shots' = Append(shots, s)
         /\ s \in Members(updatable') \cap Members(drawable')
         /\ player'.shot_timer = PLAYER_SHOT_COOLDOWN
         /\ player'.position = player.position
         /\ player'.rotation = player.rotation]_vars

\* C8's case: a ship that has turned a quarter has just fired
C8_Witness ==
    /\ pc = "update"
    /\ Head(iter) = PL
    /\ player.rotation = 90
    /\ player.shot_timer = PLAYER_SHOT_COOLDOWN
    /\ shots # <<>>
    /\ ent[shots[Len(shots)]].position = player.position

\* C9: the simulated time between two consecutive creations of a shot is at
\* least PLAYER_SHOT_COOLDOWN (so no frame creates two), whatever the frame
\* durations and the keys.
C9_CooldownBetweenShots ==
    [][(ShotsCreated' # ShotsCreated) =>
         /\ Cardinality(ShotsCreated') = Cardinality(ShotsCreated) + 1
         /\ (ShotsCreated # {} => since_shot >= PLAYER_SHOT_COOLDOWN)]_vars

\* C9's case: a second shot has just been created
C9_Witness ==
    /\ Cardinality(ShotsCreated) >= 2
    /\ since_shot = 0

\* C10: AsteroidField.update spawns nothing when the time accumulated since
\* the last spawn does not strictly exceed ASTEROID_SPAWN_RATE, and spawns
\* exactly one asteroid and resets the timer to 0 when it does.
C10_SpawnOnlyPastTheRate ==
    [][(pc = "update" /\ Head(iter) = AF) =>
         IF spawn_timer + dt > ASTEROID_SPAWN_RATE
         THEN /\ Len(ent') = Len(ent) + 1
              /\ ent'[Len(ent')].type = "asteroid"
              /\ asteroids' = Append(asteroids, Len(ent'))
              /\ spawn_timer' = 0
         ELSE /\ ent' = ent
              /\ asteroids' = asteroids
              /\ spawn_timer' = spawn_timer + dt]_vars

\* C10's case: after a spawn the field has let exactly ASTEROID_SPAWN_RATE
\* pass, in one update, without spawning again
C10_Witness ==
    /\ spawn_timer = ASTEROID_SPAWN_RATE
    /\ dt = ASTEROID_SPAWN_RATE
    /\ \E i \in DOMAIN lineage : lineage[i].kind > 0 /\ lineage[i].depth = 0

\* the two circles of a call, their squared centre distance and radius sum
Tested == <<ent[iter[1]], ent[iter[2]]>>
DistSq == (Tested[1].position[1] - Tested[2].position[1]) * (Tested[1].position[1] - Tested[2].position[1])
          + (Tested[1].position[2] - Tested[2].position[2]) * (Tested[1].position[2] - Tested[2].position[2])
RadiusSum == Tested[1].radius + Tested[2].radius

\* the whole part of the centre distance
WholeDist == CHOOSE d \in 0..30 : d * d <= DistSq /\ DistSq < (d + 1) * (d + 1)

\* C11: two circles collide exactly when their centre distance is
\* strictly less than the sum of their radii; circles that exactly touch do
\* not collide: distance 10 with radii summing to 15 collides, distance 15
\* with radii summing to 15 does not
C11_CollideIffCloserThanRadii ==
    pc \in {"overlap", "apart"} =>
        /\ (pc = "overlap") <=> (WholeDist < RadiusSum)
        /\ DistSq = RadiusSum * RadiusSum => pc = "apart"
        /\ (DistSq = 100 /\ RadiusSum = 15) => pc = "overlap"
        /\ (DistSq = 225 /\ RadiusSum = 15) => pc = "apart"

\* C11's case: the test has been made on circles of radii 5 and 10 whose
\* centres are exactly 15 apart, off the axes
C11_Witness ==
    /\ pc = "apart"
    /\ RadiusSum = 15
    /\ DistSq = 225
    /\ ent[2].position = <<9, 12>>

\* C12: a.does_collide(b) equals b.does_collide(a): the branch a call
\* takes is the one the call in the opposite order decides
C12_CollideIsSymmetric ==
    pc \in {"overlap", "apart"} =>
        ((pc = "overlap") <=> does_collide(Tested[2], Tested[1]))

\* C12's case: the test was called on the second circle, the circles have
\* different radii, and the call found them overlapping
C12_Witness ==
    /\ pc = "overlap"
    /\ iter = <<2, 1>>
    /\ ent[1].radius = 20
    /\ ent[2].radius = 5
    /\ ent[2].position = <<15, 15>>

\* the object is in every group of its class's containers, and in no other
InItsGroups(id) ==
    /\ id \in (Members(updatable) \cap Members(drawable))
    /\ IF ent[id].type = "asteroid"
       THEN id \in Members(asteroids) /\ id \notin Members(shots)
       ELSE id \in Members(shots) /\ id \notin Members(asteroids)

\* C13: a kill takes an asteroid or a shot out of all its groups in one
\* step: between steps each one is in all of its groups or in none; one that
\* is in none is not in this frame's draw pass, is not waiting in the update
\* loop, and never comes back into a group
C13_KilledLeavesEveryGroup ==
    /\ [](\A id \in DOMAIN ent :
            /\ InItsGroups(id) \/ InNoGroup(id)
            /\ InNoGroup(id) =>
                 /\ id \notin Members(drawn)
                 /\ pc \in {"update", "shoot"} => id \notin Members(iter))
    /\ [][\A id \in DOMAIN ent : InNoGroup(id) => InNoGroupNext(id)]_vars

\* C13's case: an asteroid and the shot that hit it have been killed, and
\* the frame of the kill has been drawn without them
C13_Witness ==
    /\ pc = "events"
    /\ drawn # <<>>
    /\ \E a, s \in DOMAIN ent :
         /\ ent[a].type = "asteroid" /\ ent[s].type = "shot"
         /\ InNoGroup(a) /\ InNoGroup(s)
    /\ \E c \in Members(drawn) : c > 0 /\ lineage[c].depth = 1

\* the shot created in the frame in progress, or 0
FreshShot ==
    IF pc \in {"update", "shoot", "collide", "draw", "gameover"}
       /\ since_shot = 0 /\ ShotsCreated # {}
    THEN CHOOSE s \in ShotsCreated : \A t \in ShotsCreated : t <= s
    ELSE 0

\* within a frame the update loop comes first, then the collision loop,
\* then the draw pass; no phase is entered from a later one
PhasesInOrder ==
    [][pc' # pc =>
         <<pc, pc'>> \in {<<"events", "update">>, <<"events", "quit">>,
                          <<"update", "shoot">>, <<"shoot", "update">>,
                          <<"update", "collide">>, <<"shoot", "collide">>,
                          <<"update", "draw">>, <<"shoot", "draw">>,
                          <<"collide", "draw">>, <<"collide", "gameover">>,
                          <<"draw", "events">>}]_vars

\* the shot created in a frame is in the shots group during that frame's
\* collision loop
FreshShotIsListed ==
    [][(pc = "collide" /\ FreshShot # 0) => FreshShot \in Members(shots)]_vars

\* C14: the phases of a frame run in the order update, collision loop,
\* draw, and a shot created during a frame is in the shots group during
\* that frame's collision loop, so it hits the asteroid it overlaps in the
\* frame in which it was created: the round that visits the asteroid kills
\* the shot
C14_FreshShotHitsInItsFrame ==
    /\ PhasesInOrder
    /\ FreshShotIsListed
    /\ [][(pc = "collide" /\ FreshShot # 0 /\ FreshShot \in Members(shots)
           /\ does_collide(ent[Head(iter)], ent[FreshShot]))
          => FreshShot \notin Members(shots')]_vars

\* C14, amended: the phases of a frame run in the order update, collision
\* loop, draw, and a shot created during a frame is in the shots, updatable
\* and drawable groups from its creation to the end of that frame, so the
\* collision loop tests it; it is never killed in that frame, because an
\* asteroid that overlaps it overlaps the ship, which is tested first and
\* ends the game
C14_FreshShotIsTestedButOutlivesItsFrame ==
    /\ PhasesInOrder
    /\ [](FreshShot # 0 =>
            /\ FreshShot \in (Members(shots) \cap Members(updatable)
                              \cap Members(drawable))
            /\ ent[FreshShot].position = player.position
            /\ \A a \in Members(asteroids) :
                 does_collide(ent[a], ent[FreshShot]) => does_collide(ent[a], player))
    /\ [][(pc = "collide" /\ FreshShot # 0
           /\ does_collide(ent[Head(iter)], ent[FreshShot]))
          => pc' = "gameover"]_vars

\* C14's case: the ship fired in this frame, the collision loop came to an
\* asteroid that overlaps the new shot, and the game ended with the shot
\* still in its groups
C14_Witness ==
    /\ pc = "gameover"
    /\ FreshShot # 0
    /\ does_collide(ent[Head(iter)], ent[FreshShot])
    /\ FreshShot \in Members(shots)

\* C15: when the event queue holds a QUIT event at the start of a frame
\* the loop ends there: nothing is updated, spawned, tested for collision or
\* drawn in that frame, and no step follows the quit
C15_QuitEndsTheLoopBeforeTheFrame ==
    /\ [][(pc = "events" /\ "QUIT" \in keys') =>
            /\ pc' = "quit"
            /\ UNCHANGED <<frame, dt, player, spawn_timer, ent, updatable, drawable,
                           asteroids, shots, iter, drawn, since_shot, lineage>>]_vars
    /\ [][~("QUIT" \in keys)]_vars

\* C15's case: the game was quit after the first frame, with an asteroid
\* under way and the ship's cooldown running
C15_Witness ==
    /\ pc = "quit"
    /\ "QUIT" \in keys
    /\ frame > 1
    /\ dt > 0
    /\ asteroids # <<>>
    /\ player.shot_timer > 0

\* C16: a shot expires by itself: it leaves its groups when it leaves the
\* screen or when it hits an asteroid, so no shot that has left the screen
\* is still in a group
C16_ShotsExpireOffScreen ==
    \A s \in Members(shots) \cup Members(updatable) \cup Members(drawable) :
        (s > 0 /\ ent[s].type = "shot") => ~OffScreen(ent[s])

\* C16, amended: a shot leaves its groups only when it hits an asteroid,
\* in the round of the collision loop that visits that asteroid; leaving the
\* screen does not remove it: Shot.update changes no group, and a shot that
\* is off the screen is moved on like any other
C16_ShotsLeaveOnlyByHitting ==
    /\ [][\A s \in Members(shots) :
            s \notin Members(shots') =>
               /\ pc = "collide"
               /\ does_collide(ent[Head(iter)], ent[s])]_vars
    /\ [][(pc = "update" /\ Head(iter) > 0 /\ ent[Head(iter)].type = "shot") =>
            /\ <<updatable', drawable', shots'>> = <<updatable, drawable, shots>>
            /\ ent'[Head(iter)].position =
                 Advance(ent[Head(iter)].position, ent[Head(iter)].velocity, dt)]_vars

\* C16's case: a shot that was already off the screen before this frame's
\* update has been updated and is still in its groups at the draw pass
C16_Witness ==
    /\ pc = "draw"
    /\ dt > 0
    /\ \E s \in Members(shots) \cap Members(updatable) \cap Members(drawable) :
         /\ s # FreshShot
         /\ OffScreen(ent[s])
         /\ OffScreen([ent[s] EXCEPT !.position = Advance(@, ent[s].velocity, -dt)])

\* C17: in every reachable state the ship's remaining cooldown is greater
\* than or equal to 0
C17_CooldownNeverNegative == player.shot_timer >= 0

\* C17, amended: in every reachable state the ship's remaining cooldown is
\* at most PLAYER_SHOT_COOLDOWN; it is decreased only while it is greater
\* than 0, by the whole dt of the frame, so it can go below 0, by less than
\* one frame duration
C17_CooldownRunsPastZero ==
    /\ [](/\ player.shot_timer <= PLAYER_SHOT_COOLDOWN
          /\ \E d \in DtValues(env) : player.shot_timer > -d)
    /\ [][player'.shot_timer < player.shot_timer =>
            /\ player.shot_timer > 0
            /\ player'.shot_timer = player.shot_timer - dt]_vars

\* C17's case: a frame longer than what was left of the cooldown has taken
\* it below 0
C17_Witness ==
    /\ player.shot_timer < 0
    /\ player.shot_timer + dt > 0
    /\ "SPACE" \in keys
    /\ pc \in {"update", "collide", "draw"}

\* the asteroids the step creates from the asteroid the collision loop visits
Children == (Len(ent) + 1)..Len(ent')

RECURSIVE RadiusSumNext(_)
\* the sum of the radii, after the step, of the objects of the set S
RadiusSumNext(S) ==
    IF S = {} THEN 0
    ELSE LET x == CHOOSE y \in S : TRUE IN ent'[x].radius + RadiusSumNext(S \ {x})

\* along a chain of parent-to-child splits from a spawned asteroid at most
\* ASTEROID_KINDS splits make children: an asteroid is as many splits away
\* from its spawned ancestor as it has lost steps of radius, and no radius
\* is negative
ChainIsBounded ==
    \A i \in DOMAIN ent :
        ent[i].type = "asteroid" =>
            /\ ent[i].radius = ASTEROID_MIN_RADIUS * (lineage[i].kind - lineage[i].depth)
            /\ ent[i].radius >= 0
            /\ lineage[i].kind <= ASTEROID_KINDS
            /\ lineage[i].depth <= ASTEROID_KINDS

\* C18: each split strictly decreases the sum of the radii of the live
\* descendants of the asteroid split (the radii of the children together are
\* less than the radius of the parent they replace), and along any chain of
\* splits from a spawned asteroid at most ASTEROID_KINDS splits occur before
\* an asteroid is destroyed with no children
C18_SplitShrinksTheRadiusSum ==
    /\ [][SplitCalled => RadiusSumNext(Children) < ent[Head(iter)].radius]_vars
    /\ []ChainIsBounded

\* C18, amended: each split that makes children gives every child a radius
\* ASTEROID_MIN_RADIUS less than its parent's, so the radius strictly
\* decreases along a chain, while the sum of the radii need not (60 becomes
\* 40 + 40); along any chain of splits from a spawned asteroid at most
\* ASTEROID_KINDS splits make children before an asteroid is destroyed with
\* no children
C18_SplitShrinksEachRadius ==
    /\ [][SplitCalled =>
            \A c \in Children :
               /\ ent'[c].type = "asteroid"
               /\ ent'[c].radius = ent[Head(iter)].radius - ASTEROID_MIN_RADIUS
               /\ ent'[c].radius < ent[Head(iter)].radius
               /\ ent'[c].radius >= 0]_vars
    /\ []ChainIsBounded

\* C18's case: a child of a split has itself been split, and the sum of the
\* radii of the live descendants of a spawned asteroid exceeds its radius
C18_Witness ==
    /\ \E i \in Members(asteroids) : lineage[i].depth = 2
    /\ \E i, j, k \in Members(asteroids) :
         /\ j # k
         /\ lineage[i].depth = 1 /\ lineage[j].depth = 2 /\ lineage[k].depth = 2
         /\ ent[i].radius + ent[j].radius + ent[k].radius
              > ASTEROID_MIN_RADIUS * lineage[i].kind

\* C19: the cooldown changes only when the fire action is attempted: no
\* step changes it but the call of shoot(), made when the fire key is held;
\* in a frame without the fire key it is unchanged, whatever dt is and
\* whatever other keys are held
C19_CooldownChangesOnlyOnFire ==
    [][player'.shot_timer # player.shot_timer =>
         (pc = "shoot" /\ "SPACE" \in keys)]_vars

\* C19's case: a frame of positive duration has gone by with another key
\* held and the fire key not, and the cooldown set by the last shot is whole
C19_Witness ==
    /\ pc = "draw"
    /\ dt > 0
    /\ keys = {"UP"}
    /\ since_shot > 0
    /\ player.shot_timer = PLAYER_SHOT_COOLDOWN

\* C20: every asteroid the field creates has radius ASTEROID_MIN_RADIUS *
\* kind for the kind drawn, an integer of 1..ASTEROID_KINDS, hence a radius
\* from ASTEROID_MIN_RADIUS to ASTEROID_MAX_RADIUS
C20_SpawnedRadiusIsAKind ==
    [][(pc = "update" /\ Head(iter) = AF /\ Len(ent') > Len(ent)) =>
         LET new == ent'[Len(ent')]
             kind == lineage'[Len(ent')].kind
         IN /\ Len(ent') = Len(ent) + 1
            /\ new.type = "asteroid"
            /\ kind \in 1..ASTEROID_KINDS
            /\ new.radius = ASTEROID_MIN_RADIUS * kind
            /\ new.radius >= ASTEROID_MIN_RADIUS
            /\ new.radius <= ASTEROID_MAX_RADIUS]_vars

\* C20's case: the field has created an asteroid of the smallest kind
C20_Witness ==
    \E a \in Members(asteroids) :
        /\ lineage[a].depth = 0
        /\ lineage[a].kind = 1
        /\ ent[a].radius = ASTEROID_MIN_RADIUS

\* the step is an update of the asteroid field that creates an asteroid
FieldSpawns == pc = "update" /\ Head(iter) = AF /\ Len(ent') > Len(ent)

Count(g, x) == Cardinality({i \in DOMAIN g : g[i] = x})

\* C22: the ship is created once, at the centre of the screen, and is never
\* destroyed: while the game runs there is exactly one ship, it is in the
\* updatable and the drawable group, and no collision or split takes it out
C22_OneShipAlwaysListed ==
    /\ frame = 0 => player.position = <<SCREEN_WIDTH \div 2, SCREEN_HEIGHT \div 2>>
    /\ pc \notin {"quit", "gameover"} =>
         /\ Count(updatable, PL) = 1
         /\ Count(drawable, PL) = 1
         /\ PL \notin Members(asteroids) \cup Members(shots)
         /\ \A id \in DOMAIN ent : ent[id].type \in {"asteroid", "shot"}

\* C22's case: the game runs on after a round of the collision loop that
\* killed an asteroid and a shot and made children
C22_Witness ==
    /\ pc = "draw"
    /\ \E a \in DOMAIN ent : ent[a].type = "asteroid" /\ InNoGroup(a)
    /\ \E c \in Members(asteroids) : lineage[c].depth = 1
    /\ Count(updatable, PL) = 1
    /\ Count(drawable, PL) = 1

\* 1 when the key is held, else 0
Held(key) == IF key \in keys THEN 1 ELSE 0

\* the ship's displacement over t ms of thrust at the heading r
Thrust(r, t) ==
    <<Round(Scale(Forward(r), PLAYER_SPEED)[1] * t, 1000),
      Round(Scale(Forward(r), PLAYER_SPEED)[2] * t, 1000)>>

\* C23: in the ship's update, turning changes only the heading, by
\* PLAYER_TURN_SPEED * dt in the direction held, without wrap or bound;
\* thrusting changes only the position, by the forward vector times
\* PLAYER_SPEED * dt in the direction held, without clamping at the screen
\* bounds; neither changes the cooldown; with both opposite keys held the
\* heading, or the position, is left at its starting value
C23_TurnAndThrustAreSeparate ==
    [][(pc = "update" /\ Head(iter) = PL) =>
         LET turn == Held("RIGHT") - Held("LEFT")
             push == Held("UP") - Held("DOWN")
         IN /\ player'.shot_timer = player.shot_timer
            /\ player'.radius = player.radius
            /\ player'.rotation = player.rotation + turn * ((PLAYER_TURN_SPEED * dt) \div 1000)
            /\ player'.position[1] =
                 player.position[1] + push * Thrust(player'.rotation, dt)[1]
            /\ player'.position[2] =
                 player.position[2] + push * Thrust(player'.rotation, dt)[2]
            /\ {"LEFT", "RIGHT"} \subseteq keys => player'.rotation = player.rotation
            /\ {"UP", "DOWN"} \subseteq keys => player'.position = player.position
            /\ turn = 0 => player'.rotation = player.rotation
            /\ push = 0 => player'.position = player.position]_vars

\* C23's case, turning: the ship has turned below 0 degrees and thrust
\* along its new heading
C23_Witness ==
    /\ player.rotation < 0
    /\ player.position[1] # SCREEN_WIDTH \div 2
    /\ player.position[2] # SCREEN_HEIGHT \div 2

\* the asteroid the collision loop visits overlaps the ship and a shot that
\* is in the shots group
OverlapsShipAndShot ==
    /\ pc = "collide"
    /\ does_collide(ent[Head(iter)], player)
    /\ \E s \in Members(shots) : does_collide(ent[Head(iter)], ent[s])

\* C24: the collision loop tests an asteroid against the ship before it
\* tests it against any shot: when the asteroid overlaps both the ship and
\* a shot, the game ends with the asteroid not split and the shot not
\* killed
C24_ShipIsTestedBeforeShots ==
    [][OverlapsShipAndShot =>
         /\ pc' = "gameover"
         /\ ent' = ent
         /\ <<updatable', drawable', asteroids', shots'>>
              = <<updatable, drawable, asteroids, shots>>
         /\ Head(iter) \in Members(asteroids')]_vars

\* C24's case: the game has ended on an asteroid that overlaps a shot as
\* well as the ship; both are still in their groups and no child was made
C24_Witness ==
    /\ pc = "gameover"
    /\ does_collide(ent[Head(iter)], player)
    /\ Head(iter) \in Members(asteroids) \cap Members(updatable) \cap Members(drawable)
    /\ \E s \in Members(shots) \cap Members(updatable) \cap Members(drawable) :
         does_collide(ent[Head(iter)], ent[s])
    /\ \A i \in DOMAIN lineage : lineage[i].depth = 0

\* the shots that have been killed
DeadShots == {s \in ShotsCreated : InNoGroup(s)}

\* the asteroids that came out of a split
SplitChildren == {i \in DOMAIN ent : ent[i].type = "asteroid" /\ lineage[i].depth > 0}

\* C25: a shot hits at most one asteroid: the round of the collision loop
\* that finds it overlapping the asteroid visited takes it out of every
\* group; only shots of the shots group are tested, so an asteroid visited
\* later, in that pass or in a later frame, is not split by it; in all, no
\* more asteroids have been split than shots have been killed
C25_ShotHitsOneAsteroid ==
    /\ [][(pc = "collide" /\ pc' # "gameover") =>
            /\ \A s \in Members(shots) :
                 does_collide(ent[Head(iter)], ent[s]) => InNoGroupNext(s)
            /\ (\A s \in Members(shots) : ~does_collide(ent[Head(iter)], ent[s]))
                 => (ent' = ent /\ asteroids' = asteroids /\ shots' = shots)]_vars
    /\ [](Cardinality(SplitChildren) <= 2 * Cardinality(DeadShots))

\* C25's case: a shot has hit one of two asteroids that both overlap it;
\* the one visited first was split, the other, visited later in the same
\* pass, is whole and still overlaps the place where the shot was killed
C25_Witness ==
    /\ pc = "draw"
    /\ \E s \in DeadShots, a, c \in Members(asteroids) :
         /\ lineage[a].depth = 1
         /\ lineage[c].depth = 2
         /\ does_collide(ent[a], ent[s])
         /\ does_collide(ent[c], ent[s])

\* C26: the update of an asteroid or a shot sets its position to position +
\* velocity * dt and changes nothing else; the velocity and the radius of an
\* asteroid or shot stay what they were at its creation, in every step; and
\* during the update loop nothing is killed and no asteroid comes out of a
\* split
C26_UpdateOnlyMoves ==
    /\ [][(pc = "update" /\ Head(iter) > 0) =>
            LET h == Head(iter) IN
            /\ ent'[h].position[1]
                 = ent[h].position[1] + Round(ent[h].velocity[1] * dt, 1000)
            /\ ent'[h].position[2]
                 = ent[h].position[2] + Round(ent[h].velocity[2] * dt, 1000)
            /\ Len(ent') = Len(ent)
            /\ \A i \in DOMAIN ent : i # h => ent'[i] = ent[i]
            /\ player' = player /\ spawn_timer' = spawn_timer]_vars
    /\ [][\A i \in DOMAIN ent :
            /\ ent'[i].velocity = ent[i].velocity
            /\ ent'[i].radius = ent[i].radius
            /\ ent'[i].type = ent[i].type]_vars
    /\ [][(pc \in {"update", "shoot"}) =>
            /\ \A i \in DOMAIN ent : InNoGroup(i) = InNoGroupNext(i)
            /\ \A i \in (Len(ent) + 1)..Len(ent') : lineage'[i].depth = 0]_vars

\* C26's case: a spawned asteroid and a shot have both been moved by an
\* update of positive duration, and are in the collision loop as they were
\* made
C26_Witness ==
    /\ pc = "collide"
    /\ dt > 0
    /\ \E a \in Members(asteroids), s \in Members(shots) :
         /\ lineage[a].depth = 0
         /\ ent[a].position[2] < SCREEN_HEIGHT + ASTEROID_MAX_RADIUS
         /\ ent[a].velocity = <<0, -100>>
         /\ ent[a].radius = ASTEROID_MAX_RADIUS
         /\ ent[s].position[2] > player.position[2]
         /\ ent[s].velocity = <<0, PLAYER_SHOT_SPEED>>
         /\ ent[s].radius = SHOT_RADIUS

\* C27: the asteroids a split creates are in the updatable, drawable and
\* asteroids groups as soon as the round that made them is over, and are
\* drawn in that frame; the collision loop that made them does not visit
\* them: it runs over the asteroids there were when it began, and only the
\* asteroid a round visits can leave the groups in it; the next frame's
\* loop is the first to visit them
C27_ChildrenWaitForTheNextPass ==
    /\ [][pc = "collide" =>
            /\ \A c \in Children :
                 /\ c \in (Members(updatable') \cap Members(drawable')
                           \cap Members(asteroids'))
                 /\ c \notin Members(iter')
            /\ pc' = "collide" => iter' = Tail(iter)
            /\ \A i \in Members(asteroids) : i # Head(iter) => i \in Members(asteroids')]_vars
    /\ [][pc = "draw" => \A i \in Members(asteroids) : i \in Members(drawn')]_vars
    /\ [][(pc # "collide" /\ pc' = "collide") => iter' = asteroids']_vars

\* C27's case: a frame has been drawn with the two children of a split of
\* that frame in it: they are where their parent was killed
C27_Witness ==
    /\ pc = "events"
    /\ \E p \in DOMAIN ent, c, d \in Members(drawn) :
         /\ c > 0 /\ d > 0 /\ c # d
         /\ ent[p].type = "asteroid" /\ InNoGroup(p)
         /\ lineage[c].depth = lineage[p].depth + 1
         /\ lineage[d].depth = lineage[p].depth + 1
         /\ ent[c].position = ent[p].position
         /\ ent[d].position = ent[p].position
         /\ {c, d} \subseteq Members(asteroids)

\* the asteroids the field has created
Spawned == {i \in DOMAIN ent : ent[i].type = "asteroid" /\ lineage[i].depth = 0}

\* the asteroid the field created in the frame in progress, or 0
FreshAsteroid ==
    IF pc \in {"collide", "draw", "gameover"} /\ spawn_timer = 0 /\ Spawned # {}
    THEN CHOOSE a \in Spawned : \A b \in Spawned : b <= a
    ELSE 0

\* the position is one an edge of the field gives
OnSpawnLine(p) ==
    \/ p[1] = -ASTEROID_MAX_RADIUS /\ p[2] \in 0..SCREEN_HEIGHT
    \/ p[1] = SCREEN_WIDTH + ASTEROID_MAX_RADIUS /\ p[2] \in 0..SCREEN_HEIGHT
    \/ p[2] = -ASTEROID_MAX_RADIUS /\ p[1] \in 0..SCREEN_WIDTH
    \/ p[2] = SCREEN_HEIGHT + ASTEROID_MAX_RADIUS /\ p[1] \in 0..SCREEN_WIDTH

\* C28: a shot or an asteroid created during a frame's update loop is not
\* updated in that frame: in that frame's collision loop, and at its draw,
\* the new shot is exactly where the ship was when it fired, which is where
\* the ship is, and the new asteroid is exactly at its spawn position
C28_CreatedInUpdateNotMovedThatFrame ==
    pc \in {"collide", "draw", "gameover"} =>
        /\ FreshShot # 0 => ent[FreshShot].position = player.position
        /\ FreshAsteroid # 0 => OnSpawnLine(ent[FreshAsteroid].position)

\* C28's case: in a frame of positive duration the ship moved and fired and
\* the field spawned, and the collision loop is under way
C28_Witness ==
    /\ pc = "collide"
    /\ dt > 0
    /\ "UP" \in keys
    /\ FreshShot # 0
    /\ FreshAsteroid # 0
    /\ ent[FreshShot].position # <<SCREEN_WIDTH \div 2, SCREEN_HEIGHT \div 2>>

=============================================================================
